---------------------------- MODULE Spec2Model ----------------------------
(***************************************************************************)
(* A model of the ipv4cidr package of go-cidr-manager: the IPv4CIDR value  *)
(* (ip, mask, netmask, rangeLength), its constructor NewIPv4CIDR with the  *)
(* regex gate and parse, Split, GetIPInRange and the string accessors.     *)
(*                                                                         *)
(* A uint32 is the record of its two 16-bit halves (hi, lo); every         *)
(* operation on it is computed modulo 2^32.  A uint8 is an integer modulo  *)
(* 256.  A Go string is a sequence of one-character strings.  A *IPv4CIDR  *)
(* that may be nil is a sequence of length 0 or 1.                         *)
(***************************************************************************)
EXTENDS Integers, Sequences, FiniteSets

----------------------------------------------------------------------------
(* The numeric constants of package consts                                 *)

MaxBits == 32

GroupSize == 8

EightBitsValue == 255

\* a uint32 is held as its two 16-bit halves
HalfBits == MaxBits \div 2

HalfMod == 2 ^ HalfBits

W(h, l) == [hi |-> h, lo |-> l]

Zero32 == W(0, 0)

\* ^uint32(0)
MaxUInt32 == W(HalfMod - 1, HalfMod - 1)

\* uint32(1) << (MaxBits - 1)
HighestBitSet == W(2 ^ (HalfBits - 1), 0)

EightBits == W(0, EightBitsValue)

(* consts/errors.go, and the nil error                                     *)

NoError == "nil"

InvalidIPv4CIDRError == "IP address is invalid"

NonStandardizedIPError == "IP address is not standardized"

NoMoreSplittingPossibleError == "further splitting is not possible"

RequestedIPExceedsCIDRRangeError == "Requested IP exceeds the CIDR range"

AtoiSyntaxError == "strconv.Atoi: invalid syntax"

----------------------------------------------------------------------------
(* uint32 and uint8 arithmetic                                             *)

\* uint32(k) for an int k >= 0
U32(k) == W((k \div HalfMod) % HalfMod, k % HalfMod)

U8(k) == k % 256

\* x op y on the low k bits of two ints, op one of "and", "or", "xor"
RECURSIVE Bitwise(_, _, _, _)
Bitwise(o, x, y, k) ==
    IF k = 0 THEN 0
    ELSE LET s == (x % 2) + (y % 2)
             bit == CASE o = "and" -> IF s = 2 THEN 1 ELSE 0
                      [] o = "or" -> IF s > 0 THEN 1 ELSE 0
                      [] o = "xor" -> s % 2
         IN  bit + 2 * Bitwise(o, x \div 2, y \div 2, k - 1)

And32(a, b) == W(Bitwise("and", a.hi, b.hi, HalfBits),
                 Bitwise("and", a.lo, b.lo, HalfBits))

Or32(a, b) == W(Bitwise("or", a.hi, b.hi, HalfBits),
                Bitwise("or", a.lo, b.lo, HalfBits))

Xor32(a, b) == W(Bitwise("xor", a.hi, b.hi, HalfBits),
                 Bitwise("xor", a.lo, b.lo, HalfBits))

\* a << k; Go defines a shift count at or above the width to give 0
Shl32(a, k) ==
    IF k >= MaxBits THEN Zero32
    ELSE IF k >= HalfBits THEN W((a.lo * 2 ^ (k - HalfBits)) % HalfMod, 0)
    ELSE W(((a.hi * 2 ^ k) % HalfMod) + (a.lo \div 2 ^ (HalfBits - k)),
           (a.lo * 2 ^ k) % HalfMod)

\* a >> k (logical)
Shr32(a, k) ==
    IF k >= MaxBits THEN Zero32
    ELSE IF k >= HalfBits THEN W(0, a.hi \div 2 ^ (k - HalfBits))
    ELSE W(a.hi \div 2 ^ k,
           (a.lo \div 2 ^ k) + (a.hi % 2 ^ k) * 2 ^ (HalfBits - k))

\* a + b modulo 2^32
Add32(a, b) ==
    LET l == a.lo + b.lo
    IN  W((a.hi + b.hi + (l \div HalfMod)) % HalfMod, l % HalfMod)

\* a - b modulo 2^32
Sub32(a, b) ==
    LET l == a.lo - b.lo
        borrow == IF l < 0 THEN 1 ELSE 0
    IN  W((a.hi - b.hi - borrow) % HalfMod, l % HalfMod)

Less32(a, b) == a.hi < b.hi \/ (a.hi = b.hi /\ a.lo < b.lo)

\* int(w) of a word below 2^31
IntOf(w) == w.hi * HalfMod + w.lo

----------------------------------------------------------------------------
(* Go strings and the strconv / strings functions the package calls        *)

Digits == <<"0", "1", "2", "3", "4", "5", "6", "7", "8", "9">>

DigitSet == {Digits[i] : i \in 1 .. 10}

DigitVal(c) == (CHOOSE d \in 1 .. 10 : Digits[d] = c) - 1

SetMin(S) == CHOOSE x \in S : \A y \in S : x <= y

\* strings.Split(s, sep) for a one-character separator
RECURSIVE StringsSplit(_, _)
StringsSplit(s, sep) ==
    LET at == {i \in 1 .. Len(s) : s[i] = sep}
    IN  IF at = {} THEN <<s>>
        ELSE LET p == SetMin(at)
             IN  <<SubSeq(s, 1, p - 1)>>
                    \o StringsSplit(SubSeq(s, p + 1, Len(s)), sep)

\* strings.Join(elems, sep)
RECURSIVE StringsJoin(_, _)
StringsJoin(elems, sep) ==
    IF Len(elems) = 0 THEN <<>>
    ELSE IF Len(elems) = 1 THEN elems[1]
    ELSE elems[1] \o sep \o StringsJoin(Tail(elems), sep)

\* strconv.Atoi on unsigned decimal text: the value, or a syntax error for
\* the empty string and for any character that is not a digit
RECURSIVE AtoiDigits(_, _)
AtoiDigits(s, acc) ==
    IF Len(s) = 0 THEN acc
    ELSE AtoiDigits(Tail(s), 10 * acc + DigitVal(Head(s)))

Atoi(s) ==
    IF Len(s) = 0 \/ \E i \in 1 .. Len(s) : s[i] \notin DigitSet
    THEN [val |-> 0, err |-> AtoiSyntaxError]
    ELSE [val |-> AtoiDigits(s, 0), err |-> NoError]

\* strconv.Itoa for k >= 0
RECURSIVE Itoa(_)
Itoa(k) == IF k < 10 THEN <<Digits[k + 1]>>
           ELSE Itoa(k \div 10) \o <<Digits[(k % 10) + 1]>>

----------------------------------------------------------------------------
(* consts.IPv4CIDRRegex as a syntax tree, and regexp.Match on it           *)

Class(cs) == [kind |-> "class", chars |-> cs]

Cat(ps) == [kind |-> "cat", parts |-> ps]

Alt(ps) == [kind |-> "alt", parts |-> ps]

Opt(r) == [kind |-> "opt", parts |-> <<r>>]

Times(r, k) == [kind |-> "cat", parts |-> [i \in 1 .. k |-> r]]

DigitRange(a, b) == Class({Digits[i + 1] : i \in a .. b})

\* the octet alternative in canonical decimal only: [01]?[0-9][0-9]? split
\* into 1[0-9][0-9] and [1-9]?[0-9]
OctetRegexCanonical ==
    Alt(<< Cat(<<Class({"2"}), Class({"5"}), DigitRange(0, 5)>>),
           Cat(<<Class({"2"}), DigitRange(0, 4), DigitRange(0, 9)>>),
           Cat(<<Class({"1"}), DigitRange(0, 9), DigitRange(0, 9)>>),
           Cat(<<Opt(DigitRange(1, 9)), DigitRange(0, 9)>>) >>)

\* (?:25[0-5]|2[0-4][0-9]|[01]?[0-9][0-9]?)
OctetRegex ==
    Alt(<< Cat(<<Class({"2"}), Class({"5"}), DigitRange(0, 5)>>),
           Cat(<<Class({"2"}), DigitRange(0, 4), DigitRange(0, 9)>>),
           Cat(<<Opt(DigitRange(0, 1)), DigitRange(0, 9),
                 Opt(DigitRange(0, 9))>>) >>)

\* the mask alternative with 3[0-9] for 3[0-2]
MaskRegexLoose ==
    Alt(<< DigitRange(0, 9),
           Cat(<<DigitRange(1, 2), DigitRange(0, 9)>>),
           Cat(<<Class({"3"}), DigitRange(0, 9)>>) >>)

\* (?:[0-9]|[1-2][0-9]|3[0-2])
MaskRegex ==
    Alt(<< DigitRange(0, 9),
           Cat(<<DigitRange(1, 2), DigitRange(0, 9)>>),
           Cat(<<Class({"3"}), DigitRange(0, 2)>>) >>)

\* the pattern between ^ and $
IPv4CIDRRegex ==
    Cat(<< Times(Cat(<<OctetRegex, Class({"."})>>), 3),
           OctetRegex,
           Opt(Cat(<<Class({"/"}), MaskRegex>>)) >>)

\* the positions at which a match of re that starts at a position of P ends
RECURSIVE Ends(_, _, _)
RECURSIVE CatEnds(_, _, _)
Ends(re, s, P) ==
    CASE re.kind = "class" ->
            {p + 1 : p \in {q \in P : q <= Len(s) /\ s[q] \in re.chars}}
      [] re.kind = "cat" -> CatEnds(re.parts, s, P)
      [] re.kind = "alt" ->
            UNION {Ends(re.parts[i], s, P) : i \in 1 .. Len(re.parts)}
      [] re.kind = "opt" -> P \cup Ends(re.parts[1], s, P)

CatEnds(parts, s, P) ==
    IF Len(parts) = 0 \/ P = {} THEN P
    ELSE CatEnds(Tail(parts), s, Ends(Head(parts), s, P))

\* regexp.Match(consts.IPv4CIDRRegex, []byte(IP)): the pattern is anchored
\* at both ends, so it matches iff a match from position 1 ends after the
\* last character
RegexpMatch(re, s) == (Len(s) + 1) \in Ends(re, s, {1})

----------------------------------------------------------------------------
(* The state: what a caller of the package holds, and the last call made   *)

VARIABLES
    pow32,        \* what uint32(math.Pow(2, 32)) yields in this build
    cidr,         \* the *IPv4CIDR the caller holds (nil: <<>>)
    splits,       \* successful Split calls between NewIPv4CIDR and cidr
    op,           \* the last call
    text,         \* its IP argument (NewIPv4CIDR)
    standardize,  \* its standardize argument (NewIPv4CIDR)
    n,            \* its n argument (GetIPInRange)
    withCIDR,     \* its withCIDR argument (GetIPInRange)
    recv,         \* its receiver (nil for NewIPv4CIDR)
    lower,        \* first block returned by Split
    upper,        \* second block returned by Split
    again,        \* the block NewIPv4CIDR returned for cidr.ToString()
    out,          \* the string it returned
    err           \* the error it returned

vars == <<pow32, cidr, splits, op, text, standardize, n, withCIDR,
          recv, lower, upper, again, out, err>>

None == <<>>

Some(b) == <<b>>

----------------------------------------------------------------------------
(* utils/utils.go                                                          *)

\* GetNetmask shifting by mask instead of MaxBits - mask
GetNetmaskShiftByMask(mask) == Shl32(MaxUInt32, U8(mask))

\* consts.MaxUInt32 << (consts.MaxBits - mask), the count a uint8
GetNetmask(mask) == Shl32(MaxUInt32, U8(MaxBits - mask))

\* uint32(math.Pow(2, float64(consts.MaxBits - mask))): 2^e is exact in a
\* float64; for e >= 32 it is outside uint32 and Go leaves the result of the
\* conversion to the implementation, which this build fixes as pow32
GetCIDRRangeLength(mask) ==
    LET e == U8(MaxBits - mask)
    IN  IF e >= MaxBits THEN pow32
        ELSE IF e >= HalfBits THEN W(2 ^ (e - HalfBits), 0)
        ELSE W(0, 2 ^ e)

\* Standardize without the netmask: the address is returned as given
StandardizeKeepsIP(ip, netmask) == ip

Standardize(ip, netmask) == And32(ip, netmask)

\* CheckStandardized without the comparison: every address passes
CheckStandardizedPasses(ip, netmask) == NoError

CheckStandardized(ip, netmask) ==
    IF ip = Standardize(ip, netmask) THEN NoError ELSE NonStandardizedIPError

\* the loop for i := 3; i >= 0; i--, as the sections it leaves in ipSections
RECURSIVE IPSections(_, _)
IPSections(ip, i) ==
    IF i < 0 THEN <<>>
    ELSE IPSections(Shr32(ip, GroupSize), i - 1)
            \o <<Itoa(IntOf(And32(ip, EightBits)))>>

\* ConvertIPToString filling ipSections from the first index: the least
\* significant group comes first
ConvertIPToStringLowFirst(ip) ==
    LET sec == IPSections(ip, 3)
    IN  StringsJoin(<<sec[4], sec[3], sec[2], sec[1]>>, <<".">>)

ConvertIPToString(ip) == StringsJoin(IPSections(ip, 3), <<".">>)

----------------------------------------------------------------------------
(* ipv4cidr.go                                                             *)

IPv4CIDR(ip, mask, netmask, rangeLength) ==
    [ip |-> ip, mask |-> mask, netmask |-> netmask,
     rangeLength |-> rangeLength]

\* the loop for i := 0; i < 4; i++ of parse, from index i with ip so far
RECURSIVE ParseNumbers(_, _, _)
ParseNumbers(ipNumbers, i, ip) ==
    IF i >= 4 THEN [ip |-> ip, err |-> NoError]
    ELSE IF i + 1 > Len(ipNumbers)
         THEN [ip |-> ip, err |-> "panic: index out of range"]
    ELSE LET tempIP == Atoi(ipNumbers[i + 1])
         IN  IF tempIP.err # NoError THEN [ip |-> ip, err |-> tempIP.err]
             ELSE ParseNumbers(ipNumbers, i + 1,
                               Or32(Shl32(ip, GroupSize), U32(tempIP.val)))

\* (i *IPv4CIDR).parse: the error and the object it leaves
Parse(ipString, std) ==
    LET ipSections == StringsSplit(ipString, "/")
        tempMask == IF Len(ipSections) = 2 THEN Atoi(ipSections[2])
                    ELSE [val |-> 32, err |-> NoError]
        mask == U8(tempMask.val)
        nums == ParseNumbers(StringsSplit(ipSections[1], "."), 0, Zero32)
        netmask == GetNetmask(mask)
        rangeLength == GetCIDRRangeLength(mask)
        chk == CheckStandardized(nums.ip, netmask)
        ip == IF std THEN Standardize(nums.ip, netmask) ELSE nums.ip
    IN  IF tempMask.err # NoError THEN [cidr |-> None, err |-> tempMask.err]
        ELSE IF nums.err # NoError THEN [cidr |-> None, err |-> nums.err]
        ELSE IF ~std /\ chk # NoError THEN [cidr |-> None, err |-> chk]
        ELSE [cidr |-> Some(IPv4CIDR(ip, mask, netmask, rangeLength)),
              err |-> NoError]

\* NewIPv4CIDR(IP, standardize): the pointer and the error returned
NewIPv4CIDRResult(IP, std) ==
    IF ~RegexpMatch(IPv4CIDRRegex, IP)
    THEN [cidr |-> None, err |-> InvalidIPv4CIDRError]
    ELSE Parse(IP, std)

\* (i *IPv4CIDR).Split(): both blocks and the error returned
SplitResult(i) ==
    IF i.rangeLength = U32(1)
    THEN [lower |-> None, upper |-> None,
          err |-> NoMoreSplittingPossibleError]
    ELSE LET newMask == U8(i.mask + 1)
             newRange == Shr32(i.rangeLength, 1)
             newNetmask == Or32(Shr32(i.netmask, 1), HighestBitSet)
             newIP1 == i.ip
             newIP2 == Or32(i.ip, Xor32(newNetmask, i.netmask))
         IN  [lower |-> Some(IPv4CIDR(newIP1, newMask, newNetmask, newRange)),
              upper |-> Some(IPv4CIDR(newIP2, newMask, newNetmask, newRange)),
              err |-> NoError]

\* GetIPInRange adding n instead of n - 1
GetIPInRangeOffByOne(i, nn, wc) ==
    IF Less32(i.rangeLength, nn)
    THEN [out |-> <<>>, err |-> RequestedIPExceedsCIDRRangeError]
    ELSE LET nthIPstr == ConvertIPToString(Add32(i.ip, nn))
         IN  [out |-> IF wc THEN StringsJoin(<<nthIPstr, Itoa(i.mask)>>,
                                              <<"/">>)
                      ELSE nthIPstr,
              err |-> NoError]

\* (i *IPv4CIDR).GetIPInRange(n, withCIDR): the string and the error
GetIPInRangeResult(i, nn, wc) ==
    IF Less32(i.rangeLength, nn)
    THEN [out |-> <<>>, err |-> RequestedIPExceedsCIDRRangeError]
    ELSE LET nthIP == Sub32(Add32(i.ip, nn), U32(1))
             nthIPstr == ConvertIPToString(nthIP)
         IN  [out |-> IF wc THEN StringsJoin(<<nthIPstr, Itoa(i.mask)>>,
                                              <<"/">>)
                      ELSE nthIPstr,
              err |-> NoError]

ToStringResult(i) ==
    StringsJoin(<<ConvertIPToString(i.ip), Itoa(i.mask)>>, <<"/">>)

GetIPResult(i) == ConvertIPToString(i.ip)

GetNetmaskResult(i) == ConvertIPToString(i.netmask)

----------------------------------------------------------------------------
(* The calls a caller makes                                                *)

\* bound: Split calls a caller chains after one NewIPv4CIDR
MaxSplits == 34

\* bound: the caller may go on with the higher block in the first
\* MaxUpperDepth of them, and goes on with the lower block after that
MaxUpperDepth == 2

\* the outcomes a build can give uint32(math.Pow(2, 32)): the low 32 bits
\* of the 64-bit conversion, or the saturated value
Pow32Outcomes == {Zero32, MaxUInt32}

OctetTexts == { <<"0">>, <<"1">>, <<"0", "1">>, <<"1", "0">>,
                <<"0", "1", "0">>, <<"2", "5", "5">>, <<"2", "5", "6">> }

FewOctetTexts == { <<"0">>, <<"1", "0">> }

MaskTexts == { <<"0">>, <<"8">>, <<"2", "6">>, <<"3", "0">>, <<"3", "1">>,
               <<"3", "2">>, <<"3", "3">>, <<"1", "2", "3">>, <<"0", "8">>,
               <<>> }

\* the section lists of the address part: four sections, three, five, and
\* four or two with an empty one
SectionLists ==
    {<<a, b, c, d>> : a, d \in OctetTexts, b, c \in FewOctetTexts}
        \cup [1 .. 3 -> FewOctetTexts]
        \cup [1 .. 5 -> FewOctetTexts]
        \cup {<<a, b, c, <<>>>> : a, b, c \in FewOctetTexts}
        \cup {<<a, <<>>>> : a \in FewOctetTexts}

InputTexts ==
    LET addrs == {StringsJoin(l, <<".">>) : l \in SectionLists}
    IN  addrs \cup {a \o <<"/">> \o m : a \in addrs, m \in MaskTexts}

NValues == {U32(0), U32(1), U32(2), U32(10), MaxUInt32}

Init ==
    /\ pow32 \in Pow32Outcomes
    /\ cidr = None
    /\ splits = 0
    /\ op = "none"
    /\ text = <<>>
    /\ standardize = FALSE
    /\ n = Zero32
    /\ withCIDR = FALSE
    /\ recv = None
    /\ lower = None
    /\ upper = None
    /\ again = None
    /\ out = <<>>
    /\ err = NoError

\* ip, err := NewIPv4CIDR(t, s) on a text of the caller.  It is the first
\* call of a run: it reads nothing that an earlier call leaves behind
NewIPv4CIDR ==
    /\ op = "none"
    /\ \E t \in InputTexts, s \in BOOLEAN :
        LET r == NewIPv4CIDRResult(t, s)
        IN  /\ cidr' = r.cidr
            /\ err' = r.err
            /\ op' = "NewIPv4CIDR"
            /\ text' = t
            /\ standardize' = s
            /\ UNCHANGED <<pow32, splits, n, withCIDR, recv, lower,
                           upper, again, out>>

\* The calls on a block are made on the block that NewIPv4CIDR or Split has
\* just returned: the other calls leave cidr as it is, so what can follow
\* them is what can follow the call before them
Holding == cidr # None /\ op \in {"NewIPv4CIDR", "Split"}

\* lo, hi, err := cidr.Split(), the caller going on with one of the blocks
Split ==
    /\ Holding
    /\ splits < MaxSplits
    /\ \E takeUpper \in BOOLEAN :
        LET r == SplitResult(cidr[1])
        IN  /\ takeUpper => splits < MaxUpperDepth
            /\ lower' = r.lower
            /\ upper' = r.upper
            /\ err' = r.err
            /\ op' = "Split"
            /\ recv' = cidr
            /\ IF r.err = NoError
               THEN /\ cidr' = IF takeUpper THEN r.upper ELSE r.lower
                    /\ splits' = splits + 1
               ELSE UNCHANGED <<cidr, splits>>
            /\ text' = <<>>
            /\ standardize' = FALSE
            /\ UNCHANGED <<pow32, n, withCIDR, again, out>>

\* s, err := cidr.GetIPInRange(nn, wc)
GetIPInRange ==
    /\ Holding
    /\ \E nn \in NValues, wc \in BOOLEAN :
        LET r == GetIPInRangeResult(cidr[1], nn, wc)
        IN  /\ out' = r.out
            /\ err' = r.err
            /\ op' = "GetIPInRange"
            /\ n' = nn
            /\ withCIDR' = wc
            /\ recv' = cidr
            /\ text' = <<>>
            /\ standardize' = FALSE
            /\ lower' = None
            /\ upper' = None
            /\ UNCHANGED <<pow32, cidr, splits, again>>

\* a call of an accessor that returns a string
Accessor(name, result) ==
    /\ out' = result
    /\ err' = NoError
    /\ op' = name
    /\ recv' = cidr
    /\ text' = <<>>
    /\ standardize' = FALSE
    /\ lower' = None
    /\ upper' = None
    /\ UNCHANGED <<pow32, cidr, splits, n, withCIDR, again>>

ToString == Holding /\ Accessor("ToString", ToStringResult(cidr[1]))

GetIP == Holding /\ Accessor("GetIP", GetIPResult(cidr[1]))

GetNetmaskString == Holding /\ Accessor("GetNetmask", GetNetmaskResult(cidr[1]))

\* s := cidr.ToString(); ip, err := NewIPv4CIDR(s, false), on the block that
\* NewIPv4CIDR has returned
Reparse ==
    /\ Holding
    /\ op = "NewIPv4CIDR"
    /\ LET t == ToStringResult(cidr[1])
           r == NewIPv4CIDRResult(t, FALSE)
       IN  /\ again' = r.cidr
           /\ err' = r.err
           /\ op' = "Reparse"
           /\ text' = t
           /\ standardize' = FALSE
           /\ out' = t
           /\ recv' = cidr
           /\ lower' = None
           /\ upper' = None
           /\ UNCHANGED <<pow32, cidr, splits, n, withCIDR>>

Next ==
    \/ NewIPv4CIDR
    \/ Split
    \/ GetIPInRange
    \/ ToString
    \/ GetIP
    \/ GetNetmaskString
    \/ Reparse

Spec == Init /\ [][Next]_vars

----------------------------------------------------------------------------
(* What the properties are stated in: numbers, bits and decimal spellings, *)
(* written without the operators of the code above                         *)

\* bit k (0 = least significant) of a uint32
BitOf(w, k) == IF k >= HalfBits THEN (w.hi \div 2 ^ (k - HalfBits)) % 2
               ELSE (w.lo \div 2 ^ k) % 2

\* address AND netmask == address
InStandardForm(b) ==
    \A k \in 0 .. (MaxBits - 1) : BitOf(b.ip, k) = 1 => BitOf(b.netmask, k) = 1

\* a < b, a <= b and a + b = c over the natural numbers
NatLess(a, b) == a.hi < b.hi \/ (a.hi = b.hi /\ a.lo < b.lo)

NatLeq(a, b) == a = b \/ NatLess(a, b)

NatSum(a, b, c) ==
    /\ (a.lo + b.lo) % HalfMod = c.lo
    /\ a.hi + b.hi + ((a.lo + b.lo) \div HalfMod) = c.hi

\* the uint32 whose value is 2^k * (a div 2^k): a with its low k bits cleared
FloorTo(a, k) ==
    IF k >= MaxBits THEN W(0, 0)
    ELSE IF k >= HalfBits
         THEN W(a.hi - (a.hi % 2 ^ (k - HalfBits)), 0)
    ELSE W(a.hi, a.lo - (a.lo % 2 ^ k))

\* the decimal spelling of v in 0..999, without leading zeros
Decimal(v) ==
    IF v < 10 THEN <<Digits[v + 1]>>
    ELSE IF v < 100 THEN <<Digits[(v \div 10) + 1], Digits[(v % 10) + 1]>>
    ELSE <<Digits[(v \div 100) + 1], Digits[((v \div 10) % 10) + 1],
           Digits[(v % 10) + 1]>>

DecimalOf == [v \in 0 .. 999 |-> Decimal(v)]

\* the number a text spells, or -1 when it is no spelling of 0..999
Spelled(s) ==
    IF \E v \in 0 .. 999 : DecimalOf[v] = s
    THEN CHOOSE v \in 0 .. 999 : DecimalOf[v] = s
    ELSE -1

\* a.b.c.d of a uint32
DottedQuad(w) ==
    Decimal(w.hi \div 256) \o <<".">> \o Decimal(w.hi % 256) \o <<".">>
        \o Decimal(w.lo \div 256) \o <<".">> \o Decimal(w.lo % 256)

\* the pieces of an input text: the part before the first "/", the part
\* after it, and the sections of the address part between its dots
SlashAt(t) == {i \in 1 .. Len(t) : t[i] = "/"}

HasPrefix(t) == SlashAt(t) # {}

AddressText(t) ==
    IF HasPrefix(t) THEN SubSeq(t, 1, SetMin(SlashAt(t)) - 1) ELSE t

PrefixText(t) == SubSeq(t, SetMin(SlashAt(t)) + 1, Len(t))

DotAt(a) == {i \in 1 .. Len(a) : a[i] = "."}

NumSections(t) == Cardinality(DotAt(AddressText(t))) + 1

\* the start and the end of section k: the k-1st dot and the kth
Edge(a, k) ==
    IF k = 0 THEN 0
    ELSE IF k > Cardinality(DotAt(a)) THEN Len(a) + 1
    ELSE CHOOSE p \in DotAt(a) : Cardinality({q \in DotAt(a) : q < p}) = k - 1

Section(t, k) ==
    LET a == AddressText(t)
    IN  SubSeq(a, Edge(a, k - 1) + 1, Edge(a, k) - 1)

OctetOf(t, k) == Spelled(Section(t, k))

\* A.B.C.D[/E] with A..D in 0..255 and E in 0..32, in canonical decimal
WellFormed(t) ==
    /\ Cardinality(SlashAt(t)) <= 1
    /\ NumSections(t) = 4
    /\ \A k \in 1 .. 4 : OctetOf(t, k) \in 0 .. EightBitsValue
    /\ HasPrefix(t) => Spelled(PrefixText(t)) \in 0 .. MaxBits

\* the address a well-formed text packs, first octet most significant
PackedAddress(t) ==
    W(OctetOf(t, 1) * 256 + OctetOf(t, 2), OctetOf(t, 3) * 256 + OctetOf(t, 4))

\* E, or 32 when /E is omitted
PrefixOf(t) == IF HasPrefix(t) THEN Spelled(PrefixText(t)) ELSE MaxBits

NewCalled == op = "NewIPv4CIDR"

\* every block the state holds
Held(x) == {x[i] : i \in 1 .. Len(x)}

Blocks == Held(cidr) \cup Held(recv) \cup Held(lower) \cup Held(upper)
            \cup Held(again)

\* the receiver of the last Split came from NewIPv4CIDR itself
SplitOfParsed ==
    /\ op = "Split"
    /\ IF err = NoError THEN splits = 1 ELSE splits = 0

----------------------------------------------------------------------------
(* The properties                                                          *)

\* C1: every block returned by NewIPv4CIDR, with standardize true or false,
\* and every block a chain of successful Split calls leads to, whichever
\* child is taken, has address AND netmask == address.
StandardFormInvariant == \A b \in Blocks : InStandardForm(b)

\* C1 witness: the block 128.0.0.0/2, two Splits below the standardized
\* 0.0.0.0/0 on the path that takes the higher child and then the lower
\* one.
StandardFormWitness ==
    /\ op = "Split" /\ err = NoError
    /\ splits = 2
    /\ cidr = lower /\ lower # upper
    /\ cidr[1].mask = 2 /\ cidr[1].ip = HighestBitSet

\* C2: Split of a parsed block with prefix 0..31 succeeds and partitions it:
\* the children's range sizes add up to the parent's, the lower child keeps
\* the parent's address, lies below the upper child, and the upper child
\* starts where the lower one ends.
SplitIsPartition ==
    (SplitOfParsed /\ recv[1].mask \in 0 .. (MaxBits - 1)) =>
        /\ err = NoError
        /\ lower # None /\ upper # None
        /\ NatSum(lower[1].rangeLength, upper[1].rangeLength,
                  recv[1].rangeLength)
        /\ lower[1].ip = recv[1].ip
        /\ NatLess(lower[1].ip, upper[1].ip)
        /\ NatSum(lower[1].ip, lower[1].rangeLength, upper[1].ip)

\* C3: Split of a block with prefix 32, parsed or reached by Split calls,
\* returns the NoMoreSplittingPossible error and no blocks.
SplitOfSlash32Fails ==
    (op = "Split" /\ recv[1].mask = MaxBits) =>
        /\ err = NoMoreSplittingPossibleError
        /\ lower = None /\ upper = None

\* C4: with standardize false a well-formed text fails with the
\* NonStandardizedIP error exactly when its packed address has a 1 bit
\* outside the netmask of its prefix; otherwise the block holds the packed
\* address and the prefix (32 when omitted).
NonStandardIffLowBits ==
    (NewCalled /\ ~standardize /\ WellFormed(text)) =>
        LET a == PackedAddress(text)
            e == PrefixOf(text)
            low == a # FloorTo(a, MaxBits - e)
        IN  /\ (err = NonStandardizedIPError) <=> low
            /\ low => cidr = None
            /\ ~low => /\ err = NoError
                       /\ cidr # None
                       /\ cidr[1].ip = a
                       /\ cidr[1].mask = e

\* C4 witness: both outcomes are parsed, a text with a low bit set that is
\* refused and (in another run) a text without that is accepted; this is
\* the refused one, with a prefix given.
NonStandardWitness ==
    /\ NewCalled /\ ~standardize /\ WellFormed(text)
    /\ HasPrefix(text) /\ PrefixOf(text) \in 1 .. (MaxBits - 1)
    /\ err = NonStandardizedIPError

\* C5: with standardize true a well-formed text never fails; the block
\* keeps the prefix and holds the packed address with the bits outside the
\* netmask cleared, the first address of the range.
StandardizeGivesFirstAddress ==
    (NewCalled /\ standardize /\ WellFormed(text)) =>
        /\ err = NoError
        /\ cidr # None
        /\ cidr[1].mask = PrefixOf(text)
        /\ cidr[1].ip = FloorTo(PackedAddress(text), MaxBits - PrefixOf(text))

\* C5 witness: a text whose address is not the first of its range is
\* standardized to another address.
StandardizeWitness ==
    /\ NewCalled /\ standardize /\ WellFormed(text)
    /\ cidr # None
    /\ cidr[1].ip # PackedAddress(text)
    /\ cidr[1].ip # Zero32

\* C6: when NewIPv4CIDR has succeeded, ToString of its block is a
\* well-formed text, and NewIPv4CIDR of that text with standardize false
\* succeeds and returns a block with the same address, prefix, netmask and
\* range size.
ToStringRoundTrip ==
    (op = "Reparse" /\ splits = 0) =>
        /\ out = DottedQuad(recv[1].ip) \o <<"/">> \o Decimal(recv[1].mask)
        /\ WellFormed(out)
        /\ text = out
        /\ err = NoError
        /\ again = recv

\* C6 witness: the round trip of a block that standardize true moved to the
\* first address of a range below /32.
RoundTripWitness ==
    /\ op = "Reparse" /\ splits = 0
    /\ recv[1].mask \in 1 .. (MaxBits - 1)
    /\ recv[1].ip.lo # 0 /\ recv[1].ip.hi # 0
    /\ again # None

\* C7: for every block with a prefix in 0..32, GetIPInRange(1, false)
\* succeeds and returns the string GetIP returns.
FirstIPIsGetIP ==
    (/\ op = "GetIPInRange"
     /\ n = U32(1) /\ ~withCIDR
     /\ recv[1].mask \in 0 .. MaxBits) =>
        /\ err = NoError
        /\ out = GetIPResult(recv[1])

BadFormat(t) ==
    \/ NumSections(t) # 4
    \/ \E k \in 1 .. NumSections(t) : OctetOf(t, k) > EightBitsValue
    \/ HasPrefix(t) /\ PrefixText(t) = <<>>
    \/ HasPrefix(t) /\ Spelled(PrefixText(t)) > MaxBits

\* C9: NewIPv4CIDR fails with the InvalidIPv4CIDR error and returns no
\* block for every such text, with standardize true or false, also when the
\* address would not be standard for the prefix.
BadFormatIsInvalid ==
    (NewCalled /\ BadFormat(text)) =>
        /\ err = InvalidIPv4CIDRError
        /\ cidr = None

\* C9 witness: a text with four sections and a prefix of at most 32 whose
\* only fault is a first octet above 255, and whose last octet 255 would
\* make the address non-standard, refused with standardize false.
BadFormatWitness ==
    /\ NewCalled /\ ~standardize
    /\ NumSections(text) = 4
    /\ HasPrefix(text) /\ Spelled(PrefixText(text)) \in 1 .. (MaxBits - 1)
    /\ OctetOf(text, 1) > EightBitsValue
    /\ OctetOf(text, 4) = EightBitsValue
    /\ err = InvalidIPv4CIDRError

\* C10: every block returned by NewIPv4CIDR or reached from one by
\* successful Split calls has a prefix length in 0..32.
PrefixLengthBound == \A b \in Blocks : b.mask \in 0 .. MaxBits

\* the netmask of prefix e has exactly its e highest bits set
NetmaskOfPrefix(w, e) ==
    \A k \in 0 .. (MaxBits - 1) : BitOf(w, k) = 1 <=> k >= MaxBits - e

\* the number w is 2^k; no uint32 is 2^32
IsPowerOfTwo(w, k) ==
    IF k >= HalfBits THEN w.hi = 2 ^ (k - HalfBits) /\ w.lo = 0
    ELSE w.hi = 0 /\ w.lo = 2 ^ k

\* C11: every block with a prefix e in 0..32, returned by NewIPv4CIDR or as
\* a child by Split, has the netmask with exactly the e highest bits set and
\* the range size 2^(32 - e), the values GetNetmask and GetCIDRRangeLength
\* derive from e.
DerivedFieldsConsistent ==
    \A b \in Blocks :
        b.mask \in 0 .. MaxBits =>
            /\ NetmaskOfPrefix(b.netmask, b.mask)
            /\ IsPowerOfTwo(b.rangeLength, MaxBits - b.mask)
            /\ b.netmask = GetNetmask(b.mask)
            /\ b.rangeLength = GetCIDRRangeLength(b.mask)

\* the section is a two- or three-digit number that starts with "0"
LeadingZero(s) ==
    /\ Len(s) \in 2 .. 3
    /\ \A i \in 1 .. Len(s) : s[i] \in DigitSet
    /\ s[1] = "0"

HasLeadingZeroOctet(t) ==
    \E k \in 1 .. NumSections(t) : LeadingZero(Section(t, k))

\* the number a text of at most three digits spells in decimal, zeros in
\* front allowed, or -1
PaddedSpelled(s) ==
    LET vs == {v \in 0 .. 999 :
                  \E z \in {<<>>, <<"0">>, <<"0", "0">>} :
                      /\ z \o DecimalOf[v] = s
                      /\ Len(s) <= 3}
    IN  IF vs = {} THEN -1 ELSE CHOOSE v \in vs : TRUE

PaddedOctetOf(t, k) == PaddedSpelled(Section(t, k))

PaddedAddress(t) ==
    W(PaddedOctetOf(t, 1) * 256 + PaddedOctetOf(t, 2),
      PaddedOctetOf(t, 3) * 256 + PaddedOctetOf(t, 4))

\* well-formed but for zeros in front of octets
WellFormedPadded(t) ==
    /\ Cardinality(SlashAt(t)) <= 1
    /\ NumSections(t) = 4
    /\ \A k \in 1 .. 4 : PaddedOctetOf(t, k) \in 0 .. EightBitsValue
    /\ HasPrefix(t) => Spelled(PrefixText(t)) \in 0 .. MaxBits

\* C12 as stated: NewIPv4CIDR fails with the InvalidIPv4CIDR error for
\* every text in which some octet is a two- or three-digit number that
\* starts with "0".
LeadingZeroIsInvalid ==
    (NewCalled /\ HasLeadingZeroOctet(text)) =>
        /\ err = InvalidIPv4CIDRError
        /\ cidr = None

\* C12: NewIPv4CIDR does not fail with the InvalidIPv4CIDR error for a text
\* that is well-formed but for two- or three-digit octets starting with
\* "0"; it reads each such octet in decimal, so the block it returns holds
\* the prefix and the first address of the range of the packed address,
\* and with standardize true it always returns one.
LeadingZeroIsDecimal ==
    (NewCalled /\ HasLeadingZeroOctet(text) /\ WellFormedPadded(text)) =>
        /\ err # InvalidIPv4CIDRError
        /\ standardize => err = NoError
        /\ (err = NoError) <=> (cidr # None)
        /\ cidr # None =>
              /\ cidr[1].mask = PrefixOf(text)
              /\ cidr[1].ip = FloorTo(PaddedAddress(text),
                                      MaxBits - PrefixOf(text))
              /\ ~standardize => cidr[1].ip = PaddedAddress(text)

\* C12 witness: a text whose first octet is written 010 is accepted with
\* standardize false and gives a block whose first octet is 10.
LeadingZeroWitness ==
    /\ NewCalled /\ ~standardize
    /\ Section(text, 1) = <<"0", "1", "0">>
    /\ HasPrefix(text)
    /\ err = NoError /\ cidr # None
    /\ cidr[1].ip.hi \div 256 = 10

\* a AND netmask == address, bit by bit
InBlock(a, b) ==
    \A k \in 0 .. (MaxBits - 1) :
        BitOf(a, k) * BitOf(b.netmask, k) = BitOf(b.ip, k)

\* C13: for every block reached by NewIPv4CIDR and Split and every n, n = 0
\* included, GetIPInRange(n, _) fails with the RequestedIPExceedsCIDRRange
\* error or returns an address a with a AND netmask == the block's address,
\* and address + n - 1 stays within 0 .. 2^32 - 1.
GetIPInRangeStaysInBlock ==
    op = "GetIPInRange" =>
        LET b == recv[1]
            loSum == b.ip.lo + n.lo - 1
            lo == loSum % HalfMod
            hi == b.ip.hi + n.hi + ((loSum - lo) \div HalfMod)
        IN  \/ err = RequestedIPExceedsCIDRRangeError
            \/ /\ err = NoError
               /\ hi \in 0 .. (HalfMod - 1)
               /\ WellFormed(out)
               /\ InBlock(PackedAddress(out), b)

====
